---- MODULE Spec2Model ----
(***************************************************************************)
(* A model of supercsv-go's CSVIterator (src/csv_iterator.go): the schema  *)
(* analysis done at construction (newIterator, buildFieldInfo), the value  *)
(* coercion of one cell (setFieldValue) and the iteration operations       *)
(* (Next, ForEach, ToSlice, Headers, Close).                               *)
(*                                                                         *)
(* A Go string is a sequence of atoms.  An atom is a single character      *)
(* (digits, separators, white space) or a run of letters that the code     *)
(* only ever compares as a whole (a column name, "required", "true").      *)
(***************************************************************************)
EXTENDS Integers, Sequences, FiniteSets, TLC

VARIABLES
  T,        \* the type parameter of the iterator (a type descriptor)
  file,     \* everything the csv.Reader can return, the header row first
  source,   \* which stream the constructor acquired: "none", "file", "url",
            \* "reader", or "readcloser" for a reader that is an io.Closer too
  stream,   \* the records the csv.Reader has still to return, in order
  tail,     \* what the csv.Reader returns once stream is empty: "EOF" or "IOERR"
  it,       \* <<>> while no iterator exists, else <<the CSVIterator>>
  closed,   \* how many times the acquired stream's Close has been called
  closeCalls, \* how many times CSVIterator.Close has been called
  pc,       \* "start", "idle", "foreach" (inside the ForEach loop) or "dead"
  ret,      \* what the last operation returned
  calls,    \* the (item, err) pairs the current ForEach call handed to its callback
  mark,     \* the stream as it was when the last ForEach / ToSlice / Next call began
  failed,   \* whether a Next call has returned an error other than io.EOF
  turns     \* the parity of the number of turns the ForEach loop has made

vars ==
  <<T, file, source, stream, tail, it, closed, closeCalls, pc, ret, calls, mark,
    failed, turns>>

---------------------------------------------------------------------------
(* Bounds of the model *)

\* data records offered by the stream after the header, in the iteration inputs
MaxRows == 2
\* CSVIterator.Close calls in one behaviour
MaxCloses == 2
\* callback invocations of one ForEach call that are recorded in calls
MaxCalls == 3

---------------------------------------------------------------------------
(* strings *)

WhiteSpace == {" ", "\t"}

RECURSIVE TrimLeft(_)
TrimLeft(s) ==
  IF s # <<>> /\ Head(s) \in WhiteSpace THEN TrimLeft(Tail(s)) ELSE s

RECURSIVE TrimRight(_)
TrimRight(s) ==
  IF s # <<>> /\ s[Len(s)] \in WhiteSpace
  THEN TrimRight(SubSeq(s, 1, Len(s) - 1))
  ELSE s

\* strings.TrimSpace
TrimSpace(s) == TrimRight(TrimLeft(s))

\* strings.Split(s, sep): the pieces of s between the occurrences of sep
RECURSIVE Split(_, _)
Split(s, sep) ==
  IF \E i \in 1..Len(s) : s[i] = sep
  THEN LET i == CHOOSE k \in 1..Len(s) :
                  s[k] = sep /\ \A j \in 1..(k - 1) : s[j] # sep
       IN  <<SubSeq(s, 1, i - 1)>> \o Split(SubSeq(s, i + 1, Len(s)), sep)
  ELSE <<s>>

---------------------------------------------------------------------------
(* errors *)

\* an error value: what it is about (kind), the struct field and the CSV
\* column its message names, and the error it wraps (cause)
Err(kind, field, column, cause) ==
  [kind |-> kind, field |-> field, column |-> column, cause |-> cause]

nil == Err("nil", "", <<>>, "")

\* io.EOF
EOF == Err("EOF", "", <<>>, "")

---------------------------------------------------------------------------
(* type descriptors (reflect.Type) *)

\* a field type: base kind under ptr levels of pointer
Ty(ptr, base) == [ptr |-> ptr, base |-> base]

\* a struct field: its name, whether it is exported, its csv tag ("" = <<>>
\* when the field has none) and its type
Fld(name, exported, tag, type) ==
  [name |-> name, exported |-> exported, tag |-> tag, type |-> type]

\* a type parameter: base "struct" (with fields), "int" or "iface" under
\* ptr levels of pointer
TypeParam(ptr, base, fields) == [ptr |-> ptr, base |-> base, fields |-> fields]

\* reflect.TypeOf(zero): <<>> (a nil Type) for an interface type, whose zero
\* value is the nil interface; else <<the type>>
TypeOfZero(t) == IF t.ptr = 0 /\ t.base = "iface" THEN <<>> ELSE <<t>>

\* Type.Kind()
Kind(t) == IF t.ptr > 0 THEN "ptr" ELSE t.base

\* Type.Elem() of a pointer type
Elem(t) == [t EXCEPT !.ptr = t.ptr - 1]

---------------------------------------------------------------------------
(* schema analysis *)

\* the fieldMap built from the header row: trimmed name -> zero-based
\* position, a later duplicate overwriting an earlier one
MakeFieldMap(headers) ==
  [name \in {TrimSpace(headers[i]) : i \in 1..Len(headers)} |->
     (CHOOSE i \in 1..Len(headers) :
        /\ TrimSpace(headers[i]) = name
        /\ \A j \in (i + 1)..Len(headers) : TrimSpace(headers[j]) # name) - 1]

\* whether the parts of a tag after the first hold "required"
HasRequired(parts) ==
  \E k \in 2..Len(parts) : TrimSpace(parts[k]) = <<"required">>

\* an analysis that takes every field for annotated
lacksAnnotationNever(csvTag) == FALSE

\* `csvTag == ""`: the field has no csv annotation
lacksAnnotation(csvTag) == csvTag = <<>>

\* an analysis that skips a field with a missing column, required or not
failsWhenMissingNever(required) == FALSE

\* `if required` under `if !exists`: a missing column fails the analysis
failsWhenMissing(required) == required

\* buildFieldInfo's loop from field i (zero-based) on, fields being the plan
\* built so far
RECURSIVE buildFrom(_, _, _, _)
buildFrom(structType, fieldMap, i, fields) ==
  IF i >= Len(structType.fields) THEN [fields |-> fields, err |-> nil]
  ELSE
    LET field     == structType.fields[i + 1]
        csvTag    == field.tag
        parts     == Split(csvTag, ",")
        csvColumn == TrimSpace(parts[1])
        required  == HasRequired(parts)
        exists    == csvColumn \in DOMAIN fieldMap
    IN  IF ~field.exported
        THEN buildFrom(structType, fieldMap, i + 1, fields)
        ELSE IF lacksAnnotation(csvTag)
        THEN [fields |-> <<>>,
              err |-> Err("missing csv annotation", field.name, <<>>, "")]
        ELSE IF ~exists
        THEN IF failsWhenMissing(required)
             THEN [fields |-> <<>>,
                   err |-> Err("required column not found", field.name, csvColumn, "")]
             ELSE buildFrom(structType, fieldMap, i + 1, fields)
        ELSE buildFrom(structType, fieldMap, i + 1,
                       Append(fields, [fieldIndex |-> i,
                                       csvColumn  |-> csvColumn,
                                       fieldType  |-> field.type,
                                       required   |-> required]))

buildFieldInfo(structType, fieldMap) == buildFrom(structType, fieldMap, 0, <<>>)

---------------------------------------------------------------------------
(* strconv *)

Digits == <<"0", "1", "2", "3", "4", "5", "6", "7", "8", "9">>

IsDigit(c) == \E i \in 1..Len(Digits) : Digits[i] = c

DigitVal(c) == (CHOOSE i \in 1..Len(Digits) : Digits[i] = c) - 1

IsDigitAt(s, i) == i <= Len(s) /\ IsDigit(s[i])

AllDigits(s) == s # <<>> /\ \A i \in 1..Len(s) : IsDigit(s[i])

\* the number a run of decimal digits writes
RECURSIVE DecimalVal(_)
DecimalVal(s) ==
  IF s = <<>> THEN 0
  ELSE DecimalVal(SubSeq(s, 1, Len(s) - 1)) * 10 + DigitVal(s[Len(s)])

\* strconv.ParseInt(s, 10, 64): an optional sign and decimal digits.  The
\* inputs of the model have few digits, so the 64-bit range error of
\* ParseInt is never met
ParseInt(s) ==
  LET signed == s # <<>> /\ Head(s) \in {"+", "-"}
      body   == IF signed THEN Tail(s) ELSE s
  IN  IF ~AllDigits(body) THEN [ok |-> FALSE, v |-> 0]
      ELSE [ok |-> TRUE,
            v  |-> IF signed /\ Head(s) = "-" THEN 0 - DecimalVal(body)
                   ELSE DecimalVal(body)]

\* strconv.ParseUint(s, 10, 64): decimal digits, no sign
ParseUint(s) ==
  IF ~AllDigits(s) THEN [ok |-> FALSE, v |-> 0]
  ELSE [ok |-> TRUE, v |-> DecimalVal(s)]

\* a float value: neg * num / 10^scale, with no trailing zero in the fraction
RECURSIVE NormFloat(_, _, _)
NormFloat(neg, num, scale) ==
  IF scale > 0 /\ num % 10 = 0 THEN NormFloat(neg, num \div 10, scale - 1)
  ELSE [neg |-> neg /\ num # 0, num |-> num, scale |-> scale]

\* strconv.ParseFloat(s, 64) on plain decimal notation: an optional sign,
\* digits, and an optional "." with more digits (at least one digit in all).
\* Exponents, hexadecimal, "inf" and "nan" are not among the model's inputs
ParseFloat(s) ==
  LET signed == s # <<>> /\ Head(s) \in {"+", "-"}
      body   == IF signed THEN Tail(s) ELSE s
      parts  == Split(body, ".")
      ip     == parts[1]
      fp     == IF Len(parts) = 2 THEN parts[2] ELSE <<>>
      wf     == /\ Len(parts) <= 2
                /\ \A i \in 1..Len(ip) : IsDigit(ip[i])
                /\ \A i \in 1..Len(fp) : IsDigit(fp[i])
                /\ Len(ip) + Len(fp) > 0
  IN  IF ~wf THEN [ok |-> FALSE, v |-> NormFloat(FALSE, 0, 0)]
      ELSE [ok |-> TRUE,
            v  |-> NormFloat(signed /\ Head(s) = "-",
                             DecimalVal(ip \o fp), Len(fp))]

\* strconv.ParseBool: the accepted spellings, each a whole cell
ParseBool(s) ==
  IF s \in {<<"1">>, <<"t">>, <<"T">>, <<"TRUE">>, <<"true">>, <<"True">>}
  THEN [ok |-> TRUE, v |-> TRUE]
  ELSE IF s \in {<<"0">>, <<"f">>, <<"F">>, <<"FALSE">>, <<"false">>, <<"False">>}
  THEN [ok |-> TRUE, v |-> FALSE]
  ELSE [ok |-> FALSE, v |-> FALSE]

\* the width in bits of an integer kind
Bits(base) ==
  CASE base \in {"int8", "uint8"}   -> 8
    [] base \in {"int16", "uint16"} -> 16
    [] base \in {"int32", "uint32"} -> 32
    [] OTHER                        -> 64

Pow2(n) == IF n = 8 THEN 256 ELSE 65536

\* reflect.Value.SetInt on a field of the given kind: the int64 is converted
\* to the field's width, which keeps the low bits.  Every number the model
\* can write fits 32 bits, so only the widths 8 and 16 can wrap
SetInt(base, v) ==
  IF Bits(base) > 16 THEN v
  ELSE ((v + Pow2(Bits(base)) \div 2) % Pow2(Bits(base))) - Pow2(Bits(base)) \div 2

\* reflect.Value.SetUint, likewise
SetUint(base, v) ==
  IF Bits(base) > 16 THEN v ELSE v % Pow2(Bits(base))

---------------------------------------------------------------------------
(* package time: Parse under one layout *)

\* a parse in progress or finished: ok, the text still to read, and the
\* date-time read so far.  frac is the fraction of the second, as its
\* digits; offset is the zone offset in minutes east of UTC
Tm(year, month, day, hour, min, sec, frac, offset) ==
  [year |-> year, month |-> month, day |-> day, hour |-> hour, min |-> min,
   sec |-> sec, frac |-> frac, offset |-> offset]

\* what Parse starts from: the elements a layout omits are zero or, where
\* zero is impossible, one
ParseStart == Tm(0, 1, 1, 0, 0, 0, <<>>, 0)

\* time.Time{}
ZeroTime == Tm(1, 1, 1, 0, 0, 0, <<>>, 0)

IsLeap(year) == year % 4 = 0 /\ (year % 100 # 0 \/ year % 400 = 0)

\* daysIn(month, year)
daysIn(month, year) ==
  IF month = 2 THEN (IF IsLeap(year) THEN 29 ELSE 28)
  ELSE IF month \in {4, 6, 9, 11} THEN 30 ELSE 31

\* getnum(s, fixed): one or two leading digits, two when fixed
getnum(s, fixed) ==
  IF ~IsDigitAt(s, 1) THEN [ok |-> FALSE, n |-> 0, rest |-> s]
  ELSE IF ~IsDigitAt(s, 2)
  THEN [ok |-> ~fixed, n |-> DigitVal(s[1]), rest |-> Tail(s)]
  ELSE [ok |-> TRUE, n |-> DigitVal(s[1]) * 10 + DigitVal(s[2]),
        rest |-> SubSeq(s, 3, Len(s))]

\* the number of digits at the front of s
RECURSIVE DigitRun(_)
DigitRun(s) == IF IsDigitAt(s, 1) THEN 1 + DigitRun(Tail(s)) ELSE 0

\* whether s begins with a fraction of a second: "." or "," and a digit
HasFraction(s) == Len(s) >= 2 /\ s[1] \in {".", ","} /\ IsDigit(s[2])

RECURSIVE StripZeros(_)
StripZeros(d) ==
  IF d # <<>> /\ d[Len(d)] = "0" THEN StripZeros(SubSeq(d, 1, Len(d) - 1)) ELSE d

\* parseNanoseconds: the digits of the fraction at the front of s, at most
\* nine, without the trailing zeros
FractionOf(s) ==
  LET n == DigitRun(Tail(s))
  IN  StripZeros(SubSeq(s, 2, 1 + (IF n > 9 THEN 9 ELSE n)))

AfterFraction(s) == SubSeq(s, 2 + DigitRun(Tail(s)), Len(s))

\* cutspace
RECURSIVE cutspace(_)
cutspace(s) == IF s # <<>> /\ Head(s) = " " THEN cutspace(Tail(s)) ELSE s

Failed(st) == [st EXCEPT !.ok = FALSE]

\* one element of a layout applied to the state st of a parse.  more says
\* whether the layout's next element is the fraction ".999999999"
ParseElement(el, more, st) ==
  LET v == st.rest
      t == st.t
  IN  CASE el = "2006" ->
             IF Len(v) >= 4 /\ AllDigits(SubSeq(v, 1, 4))
             THEN [ok |-> TRUE, rest |-> SubSeq(v, 5, Len(v)),
                   t |-> [t EXCEPT !.year = DecimalVal(SubSeq(v, 1, 4))]]
             ELSE Failed(st)
        [] el = "01" ->
             LET g == getnum(v, TRUE)
             IN  IF g.ok /\ g.n >= 1 /\ g.n <= 12
                 THEN [ok |-> TRUE, rest |-> g.rest, t |-> [t EXCEPT !.month = g.n]]
                 ELSE Failed(st)
        [] el = "02" ->
             LET g == getnum(v, TRUE)
             IN  IF g.ok
                 THEN [ok |-> TRUE, rest |-> g.rest, t |-> [t EXCEPT !.day = g.n]]
                 ELSE Failed(st)
        [] el = "15" ->
             LET g == getnum(v, FALSE)
             IN  IF g.ok /\ g.n < 24
                 THEN [ok |-> TRUE, rest |-> g.rest, t |-> [t EXCEPT !.hour = g.n]]
                 ELSE Failed(st)
        [] el = "04" ->
             LET g == getnum(v, TRUE)
             IN  IF g.ok /\ g.n < 60
                 THEN [ok |-> TRUE, rest |-> g.rest, t |-> [t EXCEPT !.min = g.n]]
                 ELSE Failed(st)
        [] el = "05" ->
             LET g == getnum(v, TRUE)
             IN  IF ~(g.ok /\ g.n < 60) THEN Failed(st)
                 ELSE IF HasFraction(g.rest) /\ ~more
                 THEN [ok |-> TRUE, rest |-> AfterFraction(g.rest),
                       t |-> [t EXCEPT !.sec = g.n, !.frac = FractionOf(g.rest)]]
                 ELSE [ok |-> TRUE, rest |-> g.rest, t |-> [t EXCEPT !.sec = g.n]]
        [] el = ".999999999" ->
             IF HasFraction(v)
             THEN [ok |-> TRUE, rest |-> AfterFraction(v),
                   t |-> [t EXCEPT !.frac = FractionOf(v)]]
             ELSE st
        [] el = "Z07:00" ->
             IF v # <<>> /\ Head(v) = "Z"
             THEN [ok |-> TRUE, rest |-> Tail(v), t |-> [t EXCEPT !.offset = 0]]
             ELSE IF Len(v) < 6 \/ v[4] # ":" \/ v[1] \notin {"+", "-"}
             THEN Failed(st)
             ELSE LET hh == getnum(SubSeq(v, 2, 3), TRUE)
                      mm == getnum(SubSeq(v, 5, 6), TRUE)
                      off == hh.n * 60 + mm.n
                  IN  IF hh.ok /\ mm.ok /\ hh.n <= 24 /\ mm.n <= 60
                      THEN [ok |-> TRUE, rest |-> SubSeq(v, 7, Len(v)),
                            t |-> [t EXCEPT !.offset =
                                     IF v[1] = "-" THEN 0 - off ELSE off]]
                      ELSE Failed(st)
        [] el = " " ->
             IF v # <<>> /\ Head(v) = " "
             THEN [st EXCEPT !.rest = cutspace(v)]
             ELSE Failed(st)
        [] OTHER ->
             IF v # <<>> /\ Head(v) = el
             THEN [st EXCEPT !.rest = Tail(v)]
             ELSE Failed(st)

\* the elements of layout from the i-th on, applied in turn
RECURSIVE ParseFrom(_, _, _)
ParseFrom(layout, i, st) ==
  IF ~st.ok \/ i > Len(layout) THEN st
  ELSE ParseFrom(layout, i + 1,
                 ParseElement(layout[i],
                              i < Len(layout) /\ layout[i + 1] = ".999999999",
                              st))

\* time.Parse(layout, value) and time.ParseInLocation(layout, value, time.UTC):
\* every element matches, no text is left over and the day exists in its
\* month.  Both read a text without a zone as UTC
ParseEnd(st) ==
  IF st.ok /\ st.rest = <<>>
     /\ st.t.day >= 1 /\ st.t.day <= daysIn(st.t.month, st.t.year)
  THEN [ok |-> TRUE, t |-> st.t]
  ELSE [ok |-> FALSE, t |-> ParseStart]

ParseTime(layout, value) ==
  ParseEnd(ParseFrom(layout, 1, [ok |-> TRUE, rest |-> value, t |-> ParseStart]))

RFC3339 ==
  <<"2006", "-", "01", "-", "02", "T", "15", ":", "04", ":", "05", "Z07:00">>

RFC3339Nano ==
  <<"2006", "-", "01", "-", "02", "T", "15", ":", "04", ":", "05",
    ".999999999", "Z07:00">>

\* the layouts setFieldValue tries, in its order
formats ==
  << RFC3339,
     RFC3339Nano,
     <<"2006", "-", "01", "-", "02", " ", "15", ":", "04", ":", "05">>,
     <<"2006", "-", "01", "-", "02">>,
     <<"15", ":", "04", ":", "05">>,
     <<"01", "/", "02", "/", "2006">>,
     <<"01", "/", "02", "/", "2006", " ", "15", ":", "04", ":", "05">>,
     <<"02", "/", "01", "/", "2006">>,
     <<"02", "/", "01", "/", "2006", " ", "15", ":", "04", ":", "05">> >>

---------------------------------------------------------------------------
(* value coercion *)

\* a pointer value is <<>> (nil) or <<the value it points to>>
ZeroFloat == NormFloat(FALSE, 0, 0)

\* the zero value of a field type
ZeroValue(type) ==
  IF type.ptr > 0 THEN <<>>
  ELSE CASE type.base = "string"                  -> <<>>
         [] type.base \in {"float32", "float64"}  -> ZeroFloat
         [] type.base = "bool"                    -> FALSE
         [] type.base = "time"                    -> ZeroTime
         [] type.base \in {"struct", "slice"}     -> <<>>
         [] OTHER                                 -> 0

IntKinds == {"int", "int8", "int16", "int32", "int64"}

UintKinds == {"uint", "uint8", "uint16", "uint32", "uint64"}

\* the loop of setFieldValue over formats, from the i-th layout on: the
\* first layout that parses strValue gives the value
\* the formats tried from the last one back to the first
RECURSIVE tryFormatsBackwards(_, _)
tryFormatsBackwards(strValue, i) ==
  IF i > Len(formats) THEN [ok |-> FALSE, t |-> ZeroTime]
  ELSE IF ParseTime(formats[Len(formats) + 1 - i], strValue).ok
  THEN ParseTime(formats[Len(formats) + 1 - i], strValue)
  ELSE tryFormatsBackwards(strValue, i + 1)

RECURSIVE tryFormats(_, _)
tryFormats(strValue, i) ==
  IF i > Len(formats) THEN [ok |-> FALSE, t |-> ZeroTime]
  ELSE IF ParseTime(formats[i], strValue).ok THEN ParseTime(formats[i], strValue)
  ELSE tryFormats(strValue, i + 1)

\* the end of a case of setFieldValue: p is what the parser returned, v
\* the value to store when it parsed, e the error when it did not
Store(fieldValue, p, v, e) ==
  IF p.ok THEN [err |-> "", val |-> v] ELSE [err |-> e, val |-> fieldValue]

StoreInt(fieldValue, base, p) ==
  Store(fieldValue, p, SetInt(base, p.v), "invalid integer")

StoreUint(fieldValue, base, p) ==
  Store(fieldValue, p, SetUint(base, p.v), "invalid unsigned integer")

\* the end of the pointer case: inner is what setFieldValue did to the new
\* value, which the field is set to point to
StorePtr(fieldValue, inner) ==
  IF inner.err # "" THEN [err |-> inner.err, val |-> fieldValue]
  ELSE [err |-> "", val |-> <<inner.val>>]

\* setFieldValue(fieldValue, strValue, fieldType): err is "" for a nil error
\* and val is the field's value afterwards.  The fields of a plan are
\* exported fields of an addressable struct, so CanSet holds
RECURSIVE setFieldValue(_, _, _)

\* a setFieldValue that leaves fields of unsupported types alone
setFieldValueSkipping(fieldValue, strValue, fieldType) ==
  IF fieldType.ptr = 0 /\ fieldType.base \in {"struct", "slice"}
  THEN [err |-> "", val |-> fieldValue]
  ELSE IF fieldType.ptr = 0 /\ fieldType.base = "string"
  THEN [err |-> "", val |-> strValue]
  ELSE [err |-> "invalid value", val |-> fieldValue]

setFieldValue(fieldValue, strValue, fieldType) ==
  LET keep     == [err |-> "", val |-> fieldValue]
      fail(e)  == [err |-> e, val |-> fieldValue]
      base     == fieldType.base
  IN  IF fieldType.ptr > 0
      THEN IF strValue = <<>> THEN keep
           ELSE StorePtr(fieldValue,
                         setFieldValue(ZeroValue(Elem(fieldType)), strValue,
                                       Elem(fieldType)))
      ELSE CASE base = "string" -> [err |-> "", val |-> strValue]
             [] base \in IntKinds ->
                  IF strValue = <<>> THEN keep
                  ELSE StoreInt(fieldValue, base, ParseInt(strValue))
             [] base \in UintKinds ->
                  IF strValue = <<>> THEN keep
                  ELSE StoreUint(fieldValue, base, ParseUint(strValue))
             [] base \in {"float32", "float64"} ->
                  IF strValue = <<>> THEN keep
                  ELSE Store(fieldValue, ParseFloat(strValue),
                             ParseFloat(strValue).v, "invalid float")
             [] base = "bool" ->
                  IF strValue = <<>> THEN keep
                  ELSE Store(fieldValue, ParseBool(strValue),
                             ParseBool(strValue).v, "invalid boolean")
             [] base = "time" ->
                  IF strValue = <<>> THEN keep
                  ELSE Store(fieldValue, tryFormats(strValue, 1),
                             tryFormats(strValue, 1).t, "invalid time format")
             [] base = "struct" -> fail("unsupported struct type")
             [] OTHER -> fail("unsupported field type")

---------------------------------------------------------------------------
(* the csv.Reader and CSVIterator.Next *)

\* an element of the stream: a record (its cells) or a malformed line
Row(cells) == [k |-> "row", cells |-> cells]

BadLine == [k |-> "bad", cells |-> <<>>]

\* csv.Reader.Read: the next record, or the csv.ParseError of a malformed
\* line (reading goes on after it), or at the end io.EOF or the error of
\* the underlying reader, each time again
Read(strm, tl) ==
  IF strm = <<>>
  THEN [record |-> <<>>,
        err    |-> IF tl = "EOF" THEN EOF ELSE Err("read error", "", <<>>, ""),
        rest   |-> strm]
  ELSE IF Head(strm).k = "bad"
  THEN [record |-> <<>>, err |-> Err("parse error", "", <<>>, ""), rest |-> Tail(strm)]
  ELSE [record |-> Head(strm).cells, err |-> nil, rest |-> Tail(strm)]

\* a struct whose pointer fields point to zero values instead of being nil
PresentZeroStruct(st) ==
  [i \in 1..Len(st.fields) |->
     IF st.fields[i].type.ptr > 0
     THEN <<ZeroValue(Elem(st.fields[i].type))>>
     ELSE ZeroValue(st.fields[i].type)]

\* the zero value of the struct type st
ZeroStruct(st) == [i \in 1..Len(st.fields) |-> ZeroValue(st.fields[i].type)]

\* the loop of Next over the plan, from its k-th entry on.  result is the
\* value of `result` so far and isStruct says whether resultValue is a
\* struct value: Value.Field panics on anything else
RECURSIVE parseFields(_, _, _, _, _)

\* the end of a turn of that loop: r is what setFieldValue returned
fieldSet(iter, record, k, result, field, r) ==
  IF r.err # ""
  THEN [result |-> result, panic |-> FALSE,
        err |-> Err("failed to parse field",
                    iter.structType.fields[field.fieldIndex + 1].name,
                    field.csvColumn, r.err)]
  ELSE parseFields(iter, record, k + 1,
                   [result EXCEPT ![field.fieldIndex + 1] = r.val], TRUE)

\* a turn of that loop for the plan entry field, bound to columnIndex
parseField(iter, record, k, result, isStruct, field, columnIndex) ==
  IF columnIndex >= Len(record)
  THEN IF field.required
       THEN [result |-> result, panic |-> FALSE,
             err |-> Err("missing required column in row", "", field.csvColumn, "")]
       ELSE parseFields(iter, record, k + 1, result, isStruct)
  ELSE IF TrimSpace(record[columnIndex + 1]) = <<>> /\ ~field.required
  THEN parseFields(iter, record, k + 1, result, isStruct)
  ELSE IF ~isStruct
  THEN [result |-> result, err |-> nil, panic |-> TRUE]
  ELSE fieldSet(iter, record, k, result, field,
                setFieldValue(result[field.fieldIndex + 1],
                              TrimSpace(record[columnIndex + 1]),
                              field.fieldType))

\* a loop that takes the cell at the position of the plan entry, not at the
\* index of its column
parseFieldsByPosition(iter, record, k, result, isStruct) ==
  IF k > Len(iter.fieldInfo)
  THEN [result |-> result, err |-> nil, panic |-> FALSE]
  ELSE parseField(iter, record, k, result, isStruct, iter.fieldInfo[k], k - 1)

parseFields(iter, record, k, result, isStruct) ==
  IF k > Len(iter.fieldInfo)
  THEN [result |-> result, err |-> nil, panic |-> FALSE]
  ELSE parseField(iter, record, k, result, isStruct, iter.fieldInfo[k],
                  iter.fieldMap[iter.fieldInfo[k].csvColumn])

\* a Next that gives up the rest of the stream when a row fails
nextReturnFailing(p, rest) ==
  IF p.panic THEN [item |-> <<>>, err |-> nil, panic |-> TRUE, rest |-> rest]
  ELSE IF p.err # nil
  THEN [item |-> <<>>, err |-> p.err, panic |-> FALSE, rest |-> <<>>]
  ELSE [item |-> <<p.result>>, err |-> nil, panic |-> FALSE, rest |-> rest]

\* what Next returns once its loop has ended with p: the item (<<>> for
\* nil, else <<the value of result>>), the error, whether the call
\* panicked, and the stream left
nextReturn(p, rest) ==
  IF p.panic THEN [item |-> <<>>, err |-> nil, panic |-> TRUE, rest |-> rest]
  ELSE IF p.err # nil
  THEN [item |-> <<>>, err |-> p.err, panic |-> FALSE, rest |-> rest]
  ELSE [item |-> <<p.result>>, err |-> nil, panic |-> FALSE, rest |-> rest]

\* Next after its Read returned rd.  `var result T` is a zero struct, or a
\* nil pointer when T is a pointer type: a struct is allocated for it only
\* if it.structType is a pointer type
nextAfterRead(t, iter, rd) ==
  IF rd.err # nil
  THEN [item |-> <<>>, err |-> rd.err, panic |-> FALSE, rest |-> rd.rest]
  ELSE nextReturn(
         parseFields(iter, rd.record, 1,
                     IF Kind(t) = "ptr" /\ Kind(iter.structType) # "ptr"
                     THEN <<>> ELSE ZeroStruct(iter.structType),
                     Kind(t) = "struct" \/ Kind(iter.structType) = "ptr"),
         rd.rest)

\* CSVIterator[T].Next on the iterator iter of type parameter t reading strm
IteratorNext(t, iter, strm, tl) == nextAfterRead(t, iter, Read(strm, tl))

---------------------------------------------------------------------------
(* construction *)

\* what a failing newIterator returns: no iterator, the error or the
\* panic, and how often it closed the closer
newFailure(e, panic, closes, rest) ==
  [it |-> <<>>, err |-> e, panic |-> panic, closes |-> closes, rest |-> rest]

\* newIterator once buildFieldInfo has returned built
newBuilt(headers, fieldMap, structType, built, closer, rest) ==
  IF built.err # nil
  THEN newFailure(built.err, FALSE, IF closer THEN 1 ELSE 0, rest)
  ELSE [it |-> << [headers    |-> headers,
                   fieldMap   |-> fieldMap,
                   structType |-> structType,
                   fieldInfo  |-> built.fields,
                   closer     |-> closer] >>,
        err |-> nil, panic |-> FALSE, closes |-> 0, rest |-> rest]

\* newIterator once structType is the type parameter, dereferenced if it
\* is a pointer type
newTyped(headers, structType, closer, rest) ==
  IF Kind(structType) # "struct"
  THEN newFailure(Err("type parameter must be a struct", "", <<>>, ""), FALSE,
                  IF closer THEN 1 ELSE 0, rest)
  ELSE newBuilt(headers, MakeFieldMap(headers), structType,
                buildFieldInfo(structType, MakeFieldMap(headers)), closer, rest)

\* newIterator once the headers have been read, zt being reflect.TypeOf(zero):
\* structType.Kind() on a nil reflect.Type is a nil dereference
newAnalyzed(headers, zt, closer, rest) ==
  IF zt = <<>> THEN newFailure(nil, TRUE, 0, rest)
  ELSE newTyped(headers, IF Kind(zt[1]) = "ptr" THEN Elem(zt[1]) ELSE zt[1],
                closer, rest)

\* newIterator once the Read of the header row has returned rd
newAfterRead(t, rd, closer) ==
  IF rd.err # nil
  THEN newFailure(Err("failed to read headers", "", <<>>, rd.err.kind), FALSE,
                  IF closer THEN 1 ELSE 0, rd.rest)
  ELSE newAnalyzed(rd.record, TypeOfZero(t), closer, rd.rest)

\* newIterator[T](reader, closer, delimiter) on the stream strm, closer
\* saying whether a closer was passed: the iterator returned (<<>> for nil),
\* the error, whether the call panicked, how often it closed the closer and
\* the stream left.  The delimiter only configures the csv.Reader
newIterator(t, strm, tl, closer) == newAfterRead(t, Read(strm, tl), closer)

\* what an operation returned.  The value is kept under the operation's
\* name, the values of different operations being of different kinds
Ret(op, val, err, panic) ==
  [op |-> op, val |-> [o \in {op} |-> val], err |-> err, panic |-> panic]

\* the value an operation returned
Val(r) == r.val[r.op]

\* the state after a constructor that did not reach newIterator: src says
\* whether a stream had been acquired, c how often it was closed
NoIterator(src, c, e) ==
  /\ source' = src
  /\ closed' = c
  /\ ret' = Ret("New", <<>>, e, FALSE)
  /\ pc' = "dead"
  /\ UNCHANGED <<T, turns, file, stream, tail, it, closeCalls, calls, mark, failed>>

\* the state after a constructor's call of newIterator returned r
Returned(src, r) ==
  /\ source' = src
  /\ it' = r.it
  /\ stream' = r.rest
  /\ closed' = r.closes
  /\ ret' = Ret("New", r.it, r.err, r.panic)
  /\ pc' = IF r.it = <<>> THEN "dead" ELSE "idle"
  /\ UNCHANGED <<T, turns, file, tail, closeCalls, calls, mark, failed>>

Constructed(src, closer) == Returned(src, newIterator(T, stream, tail, closer))

\* NewFromFile and NewFromFileWithDelimiter: os.Open fails or gives the file
NewFromFile ==
  /\ pc = "start"
  /\ \E opened \in BOOLEAN :
       IF opened THEN Constructed("file", TRUE)
       ELSE NoIterator("none", 0, Err("failed to open file", "", <<>>, ""))

\* NewFromURL and NewFromURLWithDelimiter: http.Get fails, or answers with
\* a status other than 200, or gives the body
NewFromURL ==
  /\ pc = "start"
  /\ \E outcome \in {"failed", "status", "ok"} :
       CASE outcome = "failed" ->
              NoIterator("none", 0, Err("failed to fetch URL", "", <<>>, ""))
         [] outcome = "status" ->
              NoIterator("url", 1, Err("HTTP error", "", <<>>, ""))
         [] outcome = "ok" -> Constructed("url", TRUE)

\* NewFromReader and NewFromReaderWithDelimiter: the reader may be an
\* io.Closer as well, newIterator gets a nil closer either way
NewFromReader ==
  /\ pc = "start"
  /\ \E src \in {"reader", "readcloser"} : Constructed(src, FALSE)

---------------------------------------------------------------------------
(* the operations of an iterator *)

\* a Next whose reader reuses the slice of the header row for the record
\* it reads, as a csv.Reader with ReuseRecord would
NextDoneReusingRecord(n) ==
  /\ stream' = n.rest
  /\ ret' = Ret("Next", n.item, n.err, n.panic)
  /\ pc' = IF n.panic THEN "dead" ELSE "idle"
  /\ mark' = stream
  /\ failed' = (failed \/ n.err \notin {nil, EOF})
  /\ it' = IF stream # <<>> /\ Head(stream).k = "row"
           THEN <<[it[1] EXCEPT !.headers = Head(stream).cells]>>
           ELSE it
  /\ UNCHANGED <<T, turns, file, source, tail, closed, closeCalls, calls>>

\* CSVIterator.Next
NextDone(n) ==
  /\ stream' = n.rest
  /\ ret' = Ret("Next", n.item, n.err, n.panic)
  /\ pc' = IF n.panic THEN "dead" ELSE "idle"
  /\ mark' = stream
  /\ failed' = (failed \/ n.err \notin {nil, EOF})
  /\ UNCHANGED <<T, turns, file, source, tail, it, closed, closeCalls, calls>>

CallNext ==
  /\ pc = "idle"
  /\ NextDone(IteratorNext(T, it[1], stream, tail))

\* calls with one more invocation of the callback, as far as it is recorded
Logged(log, item, err) ==
  IF Len(log) < MaxCalls THEN Append(log, [item |-> item, err |-> err]) ELSE log

\* CSVIterator.ForEach is called: the loop is entered
ForEach ==
  /\ pc = "idle"
  /\ pc' = "foreach"
  /\ calls' = <<>>
  /\ mark' = stream
  /\ ret' = Ret("ForEach", "running", nil, FALSE)
  /\ turns' = 0
  /\ UNCHANGED <<T, file, source, stream, tail, it, closed, closeCalls, failed>>

\* a turn that hands end-of-data to the callback like any other result
ForEachTurnAlways(n, keep) ==
  [again  |-> ~n.panic /\ n.err # EOF /\ keep,
   called |-> ~n.panic]

\* one turn of the loop of ForEach with a callback that answers keep: the
\* answers whether the loop goes on, and whether the callback is called
ForEachTurn(n, keep) ==
  [again  |-> ~n.panic /\ n.err # EOF /\ keep,
   called |-> ~n.panic /\ n.err # EOF]

\* one turn of the loop of ForEach: Next, then the callback unless the data
\* has ended; keep is what the callback returns
ForEachTurned(n, turn) ==
  /\ stream' = n.rest
  /\ calls' = IF turn.called THEN Logged(calls, n.item, n.err) ELSE calls
  /\ pc' = IF n.panic THEN "dead"
           ELSE IF turn.again THEN "foreach" ELSE "idle"
  /\ ret' = Ret("ForEach",
                IF n.panic THEN "panic"
                ELSE IF turn.again THEN "running"
                ELSE IF turn.called THEN "stopped" ELSE "eof",
                nil, n.panic)
  /\ failed' = (failed \/ n.err \notin {nil, EOF})
  /\ turns' = 1 - turns
  /\ UNCHANGED <<T, file, source, tail, it, closed, closeCalls, mark>>

ForEachStep(n) == \E keep \in BOOLEAN : ForEachTurned(n, ForEachTurn(n, keep))

ForEachIter ==
  /\ pc = "foreach"
  /\ ForEachStep(IteratorNext(T, it[1], stream, tail))

\* the loop of ToSlice: Next until io.EOF, which returns results, or until
\* another error, which returns nil and that error
RECURSIVE toSliceLoop(_, _, _, _, _)

\* a turn that returns the records collected so far along with the error
toSliceTurnPartial(t, iter, tl, results, n) ==
  IF n.panic
  THEN [results |-> <<>>, err |-> nil, panic |-> TRUE, rest |-> n.rest]
  ELSE IF n.err = EOF
  THEN [results |-> results, err |-> nil, panic |-> FALSE, rest |-> n.rest]
  ELSE IF n.err # nil
  THEN [results |-> results, err |-> n.err, panic |-> FALSE, rest |-> n.rest]
  ELSE toSliceLoop(t, iter, n.rest, tl, Append(results, n.item))

\* a turn that puts the item in front of the results instead of after them
toSliceTurnPrepending(t, iter, tl, results, n) ==
  IF n.panic
  THEN [results |-> <<>>, err |-> nil, panic |-> TRUE, rest |-> n.rest]
  ELSE IF n.err = EOF
  THEN [results |-> results, err |-> nil, panic |-> FALSE, rest |-> n.rest]
  ELSE IF n.err # nil
  THEN [results |-> <<>>, err |-> n.err, panic |-> FALSE, rest |-> n.rest]
  ELSE toSliceLoop(t, iter, n.rest, tl, <<n.item>> \o results)

\* one turn of that loop, n being what Next returned
toSliceTurn(t, iter, tl, results, n) ==
  IF n.panic
  THEN [results |-> <<>>, err |-> nil, panic |-> TRUE, rest |-> n.rest]
  ELSE IF n.err = EOF
  THEN [results |-> results, err |-> nil, panic |-> FALSE, rest |-> n.rest]
  ELSE IF n.err # nil
  THEN [results |-> <<>>, err |-> n.err, panic |-> FALSE, rest |-> n.rest]
  ELSE toSliceLoop(t, iter, n.rest, tl, Append(results, n.item))

toSliceLoop(t, iter, strm, tl, results) ==
  toSliceTurn(t, iter, tl, results, IteratorNext(t, iter, strm, tl))

ToSliceDone(r) ==
  /\ stream' = r.rest
  /\ ret' = Ret("ToSlice", r.results, r.err, r.panic)
  /\ pc' = IF r.panic THEN "dead" ELSE "idle"
  /\ mark' = stream
  /\ failed' = (failed \/ r.err # nil)
  /\ UNCHANGED <<T, turns, file, source, tail, it, closed, closeCalls, calls>>

\* CSVIterator.ToSlice
ToSlice ==
  /\ pc = "idle"
  /\ ToSliceDone(toSliceLoop(T, it[1], stream, tail, <<>>))

\* CSVIterator.Headers
Headers ==
  /\ pc = "idle"
  /\ ret' = Ret("Headers", it[1].headers, nil, FALSE)
  /\ UNCHANGED <<T, turns, file, source, stream, tail, it, closed, closeCalls, pc, calls,
                 mark, failed>>

\* what the Close of the acquired stream returns when it has been closed n
\* times before: an *os.File reports that it is already closed, a response
\* body does not
CloserClose(src, n) ==
  IF src = "file" /\ n > 0 THEN Err("file already closed", "", <<>>, "") ELSE nil

\* a Close that calls the closer the first time only and then does nothing
CloseOnce ==
  /\ pc = "idle"
  /\ closeCalls < MaxCloses
  /\ closeCalls' = closeCalls + 1
  /\ ret' = Ret("Close", <<>>, nil, FALSE)
  /\ IF it[1].closer /\ closed = 0
     THEN /\ closed' = 1
          /\ \E k \in 0..Len(stream) : stream' = SubSeq(stream, 1, k)
          /\ tail' = "IOERR"
     ELSE UNCHANGED <<closed, stream, tail>>
  /\ UNCHANGED <<T, turns, file, source, it, pc, calls, mark, failed>>

\* CSVIterator.Close: with a closer, its Close is called and the result
\* returned.  Closing the stream loses the records the csv.Reader had not
\* buffered yet: any number k of the pending records stay readable and
\* reading past them fails
Close ==
  /\ pc = "idle"
  /\ closeCalls < MaxCloses
  /\ closeCalls' = closeCalls + 1
  /\ IF it[1].closer
     THEN /\ closed' = closed + 1
          /\ ret' = Ret("Close", <<>>, CloserClose(source, closed), FALSE)
          /\ IF closed = 0
             THEN /\ \E k \in 0..Len(stream) : stream' = SubSeq(stream, 1, k)
                  /\ tail' = "IOERR"
             ELSE UNCHANGED <<stream, tail>>
     ELSE /\ ret' = Ret("Close", <<>>, nil, FALSE)
          /\ UNCHANGED <<closed, stream, tail>>
  /\ UNCHANGED <<T, turns, file, source, it, pc, calls, mark, failed>>

---------------------------------------------------------------------------
(* the inputs of the model *)

\* the sequences over S of length at most n
SeqsUpTo(S, n) == UNION {[1..k -> S] : k \in 0..n}

StringT == Ty(0, "string")

\* cell texts
CellEmpty   == <<>>
CellBlank   == <<" ">>
CellSeven   == <<"7">>
CellPadded  == <<" ", "7", "\t">>
CellMinus   == <<"-", "1">>
CellZero    == <<"0">>
Cell300     == <<"3", "0", "0">>
CellFloat   == <<"1", ".", "5">>
CellTrue    == <<"true">>
CellYes     == <<"yes">>
CellWord    == <<"x">>

\* "2024-03-15"
DateISO     == <<"2", "0", "2", "4", "-", "0", "3", "-", "1", "5">>
\* "2024-03-15T18:00:00Z"
DateRFC     == DateISO \o <<"T", "1", "8", ":", "0", "0", ":", "0", "0", "Z">>
\* "2024-03-15T18:00:00.50+02:00"
DateRFCFrac == DateISO \o <<"T", "1", "8", ":", "0", "0", ":", "0", "0", ".", "5", "0",
                            "+", "0", "2", ":", "0", "0">>
\* "2024-03-15 14:30:00"
DateSQL     == DateISO \o <<" ", "1", "4", ":", "3", "0", ":", "0", "0">>
\* "14:30:00"
TimeOnly    == <<"1", "4", ":", "3", "0", ":", "0", "0">>
\* "03/04/2024": a date under the US layout and under the European one
DateBoth    == <<"0", "3", "/", "0", "4", "/", "2", "0", "2", "4">>
\* "13/04/2024": a date under the European layout only
DateEU      == <<"1", "3", "/", "0", "4", "/", "2", "0", "2", "4">>
\* "03/20/2024 09:00:00"
DateUSTime  == <<"0", "3", "/", "2", "0", "/", "2", "0", "2", "4", " ",
                 "0", "9", ":", "0", "0", ":", "0", "0">>
\* "25/12/2024 09:00:00"
DateEUTime  == <<"2", "5", "/", "1", "2", "/", "2", "0", "2", "4", " ",
                 "0", "9", ":", "0", "0", ":", "0", "0">>
\* "02/30/2024": February 30 under the US layout, month 30 under the European
DateFeb30   == <<"0", "2", "/", "3", "0", "/", "2", "0", "2", "4">>
\* "2024-3-15": the month is not written with two digits
DateShort   == <<"2", "0", "2", "4", "-", "3", "-", "1", "5">>

PlainCells ==
  {CellEmpty, CellBlank, CellSeven, CellPadded, CellMinus, CellZero, Cell300,
   CellFloat, CellTrue, CellYes, CellWord}

DateCells ==
  {DateISO, DateRFC, DateRFCFrac, DateSQL, TimeOnly, DateBoth, DateEU,
   DateUSTime, DateEUTime, DateFeb30, DateShort}

\* an input: the type parameter, what the csv.Reader will return (the
\* header row first) and how the stream ends
Input(t, strm, tl) == [T |-> t, stream |-> strm, tail |-> tl]

Struct(fields) == TypeParam(0, "struct", fields)

(* inputs for the schema analysis: types over the columns a and b, with
   and without annotations, against several header rows *)

FieldsA ==
  { Fld("A", TRUE,  <<"a", ",", "required">>, StringT),
    Fld("A", TRUE,  <<"a">>, StringT),
    Fld("A", TRUE,  <<>>, StringT),
    Fld("a", FALSE, <<>>, StringT),
    Fld("A", TRUE,  <<" ", "a", " ", ",", " ", "required", " ">>, StringT),
    Fld("A", TRUE,  <<"a", ",", "omitempty">>, StringT) }

FieldsB ==
  { Fld("B", TRUE, <<"b", ",", "required">>, Ty(0, "int")),
    Fld("B", TRUE, <<"b">>, Ty(0, "int")),
    Fld("B", TRUE, <<>>, Ty(0, "int")) }

SchemaTypes ==
  {Struct(<<fa, fb>>) : fa \in FieldsA, fb \in FieldsB}
    \cup {TypeParam(1, "struct", <<fa>>) : fa \in FieldsA}
    \cup {TypeParam(2, "struct", <<fb>>) : fb \in FieldsB}
    \cup {TypeParam(p, b, <<>>) : p \in {0, 1}, b \in {"int", "iface"}}

SchemaHeaders ==
  { <<<<"a">>, <<"b">>>>,
    <<<<"b">>, <<"a">>>>,
    <<<<" ", "a">>, <<"b", " ">>>>,
    <<<<"a">>>>,
    <<<<"b">>>>,
    <<<<"A">>, <<"b">>>>,
    <<<<"a">>, <<"b">>, <<"a">>>> }

SchemaStreams ==
  {<<Row(h), Row(<<CellWord, CellSeven>>)>> : h \in SchemaHeaders}
    \cup {<<>>, <<BadLine, Row(<<CellWord, CellSeven>>)>>}

SchemaInputs ==
  {Input(t, strm, tl) : t \in SchemaTypes, strm \in SchemaStreams, tl \in {"EOF", "IOERR"}}

(* inputs for the coercion: a field V of each type, required or not,
   bound to column v, against one data row *)

ValueTypes ==
  {Ty(0, b) : b \in {"string", "int", "int8", "uint8", "float64", "bool",
                     "time", "struct", "slice"}}
    \cup {Ty(1, b) : b \in {"int", "float64", "time", "string"}}
    \cup {Ty(2, "int")}

ValueTags == {<<"v">>, <<"v", ",", "required">>}

CoercionTypes ==
  {Struct(<<Fld("K", TRUE, <<"k">>, StringT), Fld("V", TRUE, tag, ty)>>) :
     tag \in ValueTags, ty \in ValueTypes}

CoercionRows ==
  {Row(<<CellWord, c>>) : c \in PlainCells \cup DateCells} \cup {Row(<<CellWord>>)}

CoercionInputs ==
  {Input(t, <<Row(<<<<"k">>, <<"v">>>>), r>>, "EOF") :
     t \in CoercionTypes, r \in CoercionRows}

(* inputs for the iteration: one type, and its pointer, against every
   stream of at most MaxRows elements *)

IterationFields ==
  << Fld("Name", TRUE, <<"name", ",", "required">>, StringT),
     Fld("Age", TRUE, <<"age">>, Ty(0, "int")) >>

IterationTypes == {Struct(IterationFields), TypeParam(1, "struct", IterationFields)}

IterationItems ==
  { Row(<<<<"al">>, CellSeven>>),
    Row(<<<<"bo">>, CellEmpty>>),
    Row(<<<<"cy">>, CellWord>>),
    BadLine }

IterationInputs ==
  {Input(t, <<Row(<<<<"name">>, <<"age">>>>)>> \o rows, tl) :
     t \in IterationTypes, rows \in SeqsUpTo(IterationItems, MaxRows),
     tl \in {"EOF", "IOERR"}}

(* inputs for the binding of columns: fields A and B in both declaration
   orders against headers that order, repeat or add columns, and one row
   of the header's length *)

BindingTypes ==
  { Struct(<<Fld("A", TRUE, <<"a">>, StringT), Fld("B", TRUE, <<"b">>, Ty(0, "int"))>>),
    Struct(<<Fld("B", TRUE, <<"b">>, Ty(0, "int")), Fld("A", TRUE, <<"a">>, StringT)>>) }

BindingHeaders ==
  { <<<<"a">>, <<"b">>>>,
    <<<<"b">>, <<"a">>>>,
    <<<<"c">>, <<"b">>, <<"a">>>>,
    <<<<"a">>, <<"b">>, <<"a">>>> }

BindingInputs ==
  UNION {{Input(t, <<Row(h), Row(r)>>, "EOF") :
            t \in BindingTypes, r \in [1..Len(h) -> {CellWord, CellSeven}]} :
         h \in BindingHeaders}

(* inputs for the loop of ForEach: the struct type of the iteration inputs
   against the streams of at most one element after the header *)

LoopInputs == {in \in IterationInputs : in.T.ptr = 0 /\ Len(in.stream) <= 2}

Inputs == SchemaInputs \cup CoercionInputs \cup IterationInputs \cup BindingInputs

---------------------------------------------------------------------------
(* the specification *)

\* the state before construction, for an input of the set inputs
InitOf(inputs) ==
  /\ \E in \in inputs :
       /\ T = in.T
       /\ file = in.stream
       /\ stream = in.stream
       /\ tail = in.tail
  /\ source = "none"
  /\ it = <<>>
  /\ closed = 0
  /\ closeCalls = 0
  /\ pc = "start"
  /\ ret = Ret("none", <<>>, nil, FALSE)
  /\ calls = <<>>
  /\ mark = <<>>
  /\ failed = FALSE
  /\ turns = 0

Init == InitOf(Inputs)

Next ==
  \/ NewFromFile
  \/ NewFromURL
  \/ NewFromReader
  \/ CallNext
  \/ ForEach
  \/ ForEachIter
  \/ ToSlice
  \/ Headers
  \/ Close

Spec == Init /\ [][Next]_vars

\* the loop inputs, with a loop of ForEach that runs on: once entered, its
\* next turn is taken
FairSpec == InitOf(LoopInputs) /\ [][Next]_vars /\ WF_turns(ForEachIter)

---------------------------------------------------------------------------
(* what the claims speak of *)

\* the header row was read: the stream begins with a well-formed record
HeaderRead == file # <<>> /\ file[1].k = "row"

\* the trimmed header names
HeaderNames == {TrimSpace(file[1].cells[i]) : i \in 1..Len(file[1].cells)}

\* a constructor has called newIterator and it has returned or panicked
RanNewIterator ==
  /\ pc # "start"
  /\ ~(ret.op = "New"
       /\ ret.err.kind \in {"failed to open file", "failed to fetch URL", "HTTP error"})

\* the type parameter is a struct type or a pointer to one
IsRecordType == T.base = "struct" /\ T.ptr <= 1

\* the column a field's annotation names
TagColumn(f) == TrimSpace(Split(f.tag, ",")[1])

\* an exported field annotated required whose column is not in the header
RequiredMissing(f) ==
  /\ f.exported
  /\ f.tag # <<>>
  /\ \E k \in 2..Len(Split(f.tag, ",")) :
       TrimSpace(Split(f.tag, ",")[k]) = <<"required">>
  /\ TagColumn(f) \notin HeaderNames

\* an exported field without csv annotation
Unannotated(f) == f.exported /\ f.tag = <<>>

Offending(f) == RequiredMissing(f) \/ Unannotated(f)

\* the first field, in declaration order, that the analysis cannot accept
FirstOffending ==
  T.fields[CHOOSE i \in 1..Len(T.fields) :
             /\ Offending(T.fields[i])
             /\ \A j \in 1..(i - 1) : ~Offending(T.fields[j])]

Analyzed == RanNewIterator /\ HeaderRead /\ IsRecordType

---------------------------------------------------------------------------
(* C1 *)

\* C1 as stated: whenever a field annotated required has its column missing
\* from the header, construction returns no iterator and an error naming
\* that column.
C1_Original ==
  Analyzed =>
    \A i \in 1..Len(T.fields) :
      RequiredMissing(T.fields[i]) =>
        /\ it = <<>>
        /\ ret.op = "New"
        /\ ret.err.kind = "required column not found"
        /\ ret.err.column = TagColumn(T.fields[i])

\* C1 (amended): when a field annotated required has its column missing from
\* the header that was read, construction returns an error and no iterator,
\* so no Next call can follow; the error names that column (and its field)
\* when the field is the first one, in declaration order, that is
\* unannotated or required with a missing column.
C1_RequiredColumnFailsConstruction ==
  (Analyzed /\ \E i \in 1..Len(T.fields) : RequiredMissing(T.fields[i])) =>
    /\ it = <<>>
    /\ pc = "dead"
    /\ ~ENABLED CallNext
    /\ ret.op = "New"
    /\ ret.err # nil
    /\ ~ret.panic
    /\ RequiredMissing(FirstOffending) =>
         ret.err = Err("required column not found", FirstOffending.name,
                       TagColumn(FirstOffending), "")

\* a construction that failed on a missing required column, which is the
\* second field's: the first field was accepted
C1_Witness ==
  /\ Analyzed
  /\ Len(T.fields) = 2
  /\ ~Offending(T.fields[1])
  /\ RequiredMissing(T.fields[2])
  /\ it = <<>>
  /\ ret.err.kind = "required column not found"
  /\ ret.err.column = <<"b">>

---------------------------------------------------------------------------
(* C2 *)

\* C2 as stated: whenever an exported field has no csv annotation,
\* construction returns no iterator and an error naming that field,
\* whatever the other fields' annotations are.
C2_Original ==
  Analyzed =>
    \A i \in 1..Len(T.fields) :
      Unannotated(T.fields[i]) =>
        /\ it = <<>>
        /\ ret.op = "New"
        /\ ret.err.kind = "missing csv annotation"
        /\ ret.err.field = T.fields[i].name

\* C2 (amended): when an exported field has no csv annotation, construction
\* over a header that was read returns an error and no iterator, whatever
\* the header and the rows contain: the field is not skipped.  The error
\* names that field when it is the first one, in declaration order, that is
\* unannotated or required with a missing column.
C2_UnannotatedFieldFailsConstruction ==
  (Analyzed /\ \E i \in 1..Len(T.fields) : Unannotated(T.fields[i])) =>
    /\ it = <<>>
    /\ pc = "dead"
    /\ ret.op = "New"
    /\ ret.err # nil
    /\ ~ret.panic
    /\ Unannotated(FirstOffending) =>
         ret.err = Err("missing csv annotation", FirstOffending.name, <<>>, "")

\* a construction that failed on the unannotated second field, every column
\* being in the header
C2_Witness ==
  /\ Analyzed
  /\ Len(T.fields) = 2
  /\ ~Offending(T.fields[1])
  /\ Unannotated(T.fields[2])
  /\ HeaderNames = {<<"a">>, <<"b">>}
  /\ it = <<>>
  /\ ret.err.kind = "missing csv annotation"
  /\ ret.err.field = "B"

---------------------------------------------------------------------------
(* C3, C4: the cells of the row that Next has read *)

\* a field that construction put in the plan
InPlan(f) == f.exported /\ f.tag # <<>> /\ TagColumn(f) \in HeaderNames

\* the field's annotation carries the required directive
TagRequired(f) ==
  \E k \in 2..Len(Split(f.tag, ",")) : TrimSpace(Split(f.tag, ",")[k]) = <<"required">>

\* the position of the field's column in the header, the last one of that name
ColumnIndex(f) ==
  CHOOSE i \in 1..Len(file[1].cells) :
    /\ TrimSpace(file[1].cells[i]) = TagColumn(f)
    /\ \A j \in (i + 1)..Len(file[1].cells) :
         TrimSpace(file[1].cells[j]) # TagColumn(f)

\* the last operation was a Next call on an iterator over a struct type that
\* read a well-formed row
RowRead ==
  /\ ret.op = "Next"
  /\ T.base = "struct"
  /\ T.ptr = 0
  /\ mark # <<>>
  /\ mark[1].k = "row"

\* the row has a cell in the field's column
CellPresent(f) == ColumnIndex(f) <= Len(mark[1].cells)

\* the trimmed text of that cell
CellOf(f) == TrimSpace(mark[1].cells[ColumnIndex(f)])

\* the field types the package documents as supported
Supported(type) ==
  type.base \in {"string", "bool", "time", "float32", "float64",
                 "int", "int8", "int16", "int32", "int64",
                 "uint", "uint8", "uint16", "uint32", "uint64"}

\* C3 as stated: a Next call that reads a row in which the cell of a
\* required field of a supported type is empty after trimming returns an
\* error other than end-of-data and no record.
C3_RequiredEmptyCellIsError ==
  RowRead =>
    \A i \in 1..Len(T.fields) :
      (/\ InPlan(T.fields[i])
       /\ TagRequired(T.fields[i])
       /\ Supported(T.fields[i].type)
       /\ CellPresent(T.fields[i])
       /\ CellOf(T.fields[i]) = <<>>) =>
        /\ Val(ret) = <<>>
        /\ ret.err \notin {nil, EOF}

\* C4: in the record a Next call returns, a non-required field of the plan
\* whose cell is empty after trimming (or missing from the row) has its
\* default: the zero value of its type, which for a pointer field is nil
\* and not a pointer to a zero; a pointer field whose cell is not empty
\* points to a value.
C4_OptionalEmptyCellIsDefault ==
  (RowRead /\ Val(ret) # <<>>) =>
    \A i \in 1..Len(T.fields) :
      (InPlan(T.fields[i]) /\ ~TagRequired(T.fields[i])) =>
        IF ~CellPresent(T.fields[i]) \/ CellOf(T.fields[i]) = <<>>
        THEN /\ Val(ret)[1][i] = ZeroValue(T.fields[i].type)
             /\ T.fields[i].type.ptr > 0 => Val(ret)[1][i] = <<>>
        ELSE T.fields[i].type.ptr > 0 => Len(Val(ret)[1][i]) = 1

\* a returned record whose optional *float64 field is nil, its cell being
\* blank
C4_Witness ==
  /\ RowRead
  /\ Val(ret) # <<>>
  /\ ret.err = nil
  /\ Len(T.fields) = 2
  /\ InPlan(T.fields[2])
  /\ ~TagRequired(T.fields[2])
  /\ T.fields[2].type = Ty(1, "float64")
  /\ CellPresent(T.fields[2])
  /\ mark[1].cells[ColumnIndex(T.fields[2])] # <<>>
  /\ CellOf(T.fields[2]) = <<>>
  /\ Val(ret)[1][2] = <<>>

---------------------------------------------------------------------------
(* C5 *)

\* the formats, by number, under which time.Parse accepts the text
Accepting(text) == {n \in 1..Len(formats) : ParseTime(formats[n], text).ok}

\* the least number of a non-empty set of numbers
Least(S) == CHOOSE n \in S : \A m \in S : n <= m

\* a time.Time field of the plan whose cell is not empty and that no field
\* before it keeps from being parsed
TimeCellRead(i) ==
  /\ InPlan(T.fields[i])
  /\ T.fields[i].type = Ty(0, "time")
  /\ \A j \in 1..(i - 1) : T.fields[j].type = StringT
  /\ CellPresent(T.fields[i])
  /\ CellOf(T.fields[i]) # <<>>

\* what Next returned is what a time field whose text the formats in
\* accepting accept must give
TimeCellParsed(f, i, text, accepting) ==
  IF accepting = {}
  THEN /\ Val(ret) = <<>>
       /\ ret.err = Err("failed to parse field", f.name, TagColumn(f),
                        "invalid time format")
  ELSE /\ ret.err = nil
       /\ Val(ret) # <<>>
       /\ Val(ret)[1][i] = ParseTime(formats[Least(accepting)], text).t

\* C5: there are nine formats; a Next call that reads a non-empty cell for
\* a time.Time field stores the time that the lowest-numbered accepting
\* format parses from the trimmed text, and returns an invalid-time-format
\* error and no record when no format accepts it; 03/04/2024 is March 4.
C5_FirstMatchingFormatWins ==
  /\ Len(formats) = 9
  /\ RowRead =>
       \A i \in 1..Len(T.fields) :
         TimeCellRead(i) =>
           /\ TimeCellParsed(T.fields[i], i, CellOf(T.fields[i]),
                             Accepting(CellOf(T.fields[i])))
           /\ CellOf(T.fields[i]) = DateBoth =>
                /\ Val(ret) # <<>>
                /\ Val(ret)[1][i].month = 3
                /\ Val(ret)[1][i].day = 4

\* Next has parsed 03/04/2024, which the US date format (6) and the
\* European one (8) both accept, as March 4
C5_Witness ==
  /\ RowRead
  /\ TimeCellRead(2)
  /\ CellOf(T.fields[2]) = DateBoth
  /\ Accepting(DateBoth) = {6, 8}
  /\ Val(ret) # <<>>
  /\ Val(ret)[1][2] = Tm(2024, 3, 4, 0, 0, 0, <<>>, 0)

---------------------------------------------------------------------------
(* C6 *)

\* how many elements of the stream have been consumed since mark was taken
Consumed == Len(mark) - Len(stream)

\* what a Next call returns for the j-th element of the stream since mark,
\* or, past its end, for the end of the stream
NextAt(j) ==
  IteratorNext(T, it[1],
               IF j <= Len(mark) THEN SubSeq(mark, j, Len(mark)) ELSE <<>>, tail)

\* what the callback was given when it was handed the result n
Given(n) == [item |-> n.item, err |-> n.err]

\* C6: while and after ForEach runs without panic, the callback has been
\* invoked once for each element consumed, in stream order, with what Next
\* returns for that element, and never with end-of-data; after the callback
\* returned false the loop has stopped and the elements after the rejected
\* one are still unread; when the loop ended on end-of-data the stream is
\* exhausted and the callback was invoked for its elements only.
C6_ForEachCallsInOrderUntilFalse ==
  (ret.op = "ForEach" /\ Val(ret) # "panic") =>
    /\ Consumed >= 0
    /\ stream = SubSeq(mark, Consumed + 1, Len(mark))
    /\ \A j \in 1..Len(calls) :
         /\ calls[j] = Given(NextAt(j))
         /\ calls[j].err # EOF
    /\ (stream # <<>> \/ tail = "EOF") => Len(calls) = Consumed
    /\ Len(calls) < MaxCalls => Len(calls) >= Consumed
    /\ Val(ret) = "stopped" =>
         /\ pc = "idle"
         /\ calls # <<>>
         /\ Len(calls) <= Len(mark) =>
              stream = SubSeq(mark, Len(calls) + 1, Len(mark))
    /\ Val(ret) = "eof" =>
         /\ pc = "idle"
         /\ stream = <<>>
         /\ tail = "EOF"
         /\ Len(calls) = Len(mark)
    /\ Val(ret) = "running" => pc = "foreach"

\* ForEach over two rows stopped after the callback returned false for the
\* first record: the second row is still to be read
C6_Witness ==
  /\ ret.op = "ForEach"
  /\ Val(ret) = "stopped"
  /\ Len(mark) = 2
  /\ Len(calls) = 1
  /\ calls[1].err = nil
  /\ calls[1].item # <<>>
  /\ stream = Tail(mark)
  /\ stream[1].k = "row"

---------------------------------------------------------------------------
(* C7 *)

\* how many elements of the file, the header row included, had been read
\* when mark was taken
ReadBefore == Len(file) - Len(mark)

\* what a Next call returns for the j-th element of the file
NextOfFile(j) == IteratorNext(T, it[1], SubSeq(file, j, Len(file)), tail)

\* the elements of the file from the j-th on are rows that Next turns into
\* records
AllCoerce(j) ==
  \A m \in j..Len(file) :
    /\ file[m].k = "row"
    /\ NextOfFile(m).err = nil
    /\ ~NextOfFile(m).panic

\* C7: over an input that ends with end-of-data and whose remaining rows
\* all coerce, ToSlice called after k rows have been read by Next returns
\* no error and exactly the records that Next returns for the rows k+1..n
\* of the file, in that order, and leaves the stream exhausted.
C7_ToSliceIsRepeatedNext ==
  (/\ ret.op = "ToSlice"
   /\ tail = "EOF"
   /\ AllCoerce(ReadBefore + 1)) =>
    /\ ~ret.panic
    /\ ret.err = nil
    /\ mark = SubSeq(file, ReadBefore + 1, Len(file))
    /\ Len(Val(ret)) = Len(mark)
    /\ \A j \in 1..Len(Val(ret)) : Val(ret)[j] = NextOfFile(ReadBefore + j).item
    /\ stream = <<>>

\* ToSlice has returned the two records of a file of two rows, which differ
C7_Witness ==
  /\ ret.op = "ToSlice"
  /\ tail = "EOF"
  /\ ReadBefore = 1
  /\ AllCoerce(2)
  /\ Len(Val(ret)) = 2
  /\ Val(ret)[1] # Val(ret)[2]
  /\ Val(ret)[1] = NextOfFile(2).item
  /\ Val(ret)[1] # <<>>

---------------------------------------------------------------------------
(* C8 *)

\* this step yields a record: a Next call returns one, ForEach hands one to
\* the callback, or ToSlice returns some
RecordYielded ==
  \/ ret'.op = "Next" /\ Val(ret') # <<>>
  \/ ret'.op = "ToSlice" /\ Val(ret') # <<>>
  \/ /\ ret'.op = "ForEach"
     /\ Len(calls') > Len(calls)
     /\ calls'[Len(calls')].item # <<>>

\* C8 as stated: once a Next call (of the caller, of ForEach or of ToSlice)
\* has returned an error other than end-of-data, no later step yields a
\* record.
C8_FailedIsUnrecoverable == [][failed => ~RecordYielded]_vars

\* C8 (amended): there is no Failed state.  Whatever earlier calls
\* returned, a Next call consumes exactly the next element of the stream
\* and returns what that element alone determines, a record or an error;
\* on an exhausted stream it consumes nothing and returns end-of-data, or
\* the read error of the underlying reader.
C8_NextDependsOnNextRowOnly ==
  (ret.op = "Next" /\ ~ret.panic) =>
    IF mark # <<>>
    THEN /\ stream = Tail(mark)
         /\ Given([item |-> Val(ret), err |-> ret.err])
              = Given(IteratorNext(T, it[1], <<Head(mark)>>, tail))
         /\ ret.err # EOF
    ELSE /\ stream = <<>>
         /\ Val(ret) = <<>>
         /\ ret.err = IF tail = "EOF" THEN EOF ELSE Err("read error", "", <<>>, "")

\* a Next call has returned a record after an earlier call had returned an
\* error
C8_Witness ==
  /\ failed
  /\ ret.op = "Next"
  /\ ret.err = nil
  /\ Val(ret) # <<>>
  /\ mark # <<>>
  /\ stream = Tail(mark)

---------------------------------------------------------------------------
(* C9 *)

\* C9 as stated: once Close has been called on an iterator that holds a
\* closer, however often, the closer has been closed exactly once, and the
\* second and later Close calls return no error.
C9_CloseIsIdempotent ==
  (it # <<>> /\ it[1].closer /\ closeCalls >= 1) =>
    /\ closed = 1
    /\ (ret.op = "Close" /\ closeCalls >= 2) => ret.err = nil

\* C9 (amended): Close forwards to the closer on every call and never
\* panics: after n Close calls on an iterator that holds a closer, the
\* closer's Close has been called n times, and each call returned what the
\* closer returned, which for a file is an error from the second call on;
\* an iterator without closer closes nothing and returns no error.
C9_CloseForwardsEveryCall ==
  it # <<>> =>
    /\ closed = IF it[1].closer THEN closeCalls ELSE 0
    /\ ret.op = "Close" =>
         /\ ~ret.panic
         /\ closeCalls >= 1
         /\ ret.err = IF source = "file" /\ closeCalls >= 2
                      THEN Err("file already closed", "", <<>>, "")
                      ELSE nil

\* the second Close of an iterator over a file, after the data was
\* exhausted, has closed the file again and returned its error
C9_Witness ==
  /\ it # <<>>
  /\ source = "file"
  /\ closeCalls = 2
  /\ closed = 2
  /\ ret.op = "Close"
  /\ ret.err = Err("file already closed", "", <<>>, "")

---------------------------------------------------------------------------
(* C10 *)

\* C10 as stated: once a constructor that acquired a file or a response
\* body has ended without iterator, the stream has been closed exactly
\* once; when it has returned an iterator, the stream is not closed before
\* the caller calls Close.
C10_FailedConstructionClosesStream ==
  source \in {"file", "url"} =>
    IF it = <<>>
    THEN closed = 1
    ELSE closeCalls = 0 => closed = 0

---------------------------------------------------------------------------
(* C11 *)

\* an exported, annotated field of a type without coercion rule
Unsupported(f) == f.exported /\ f.tag # <<>> /\ ~Supported(f.type)

\* the error setFieldValue gives for a type without coercion rule
UnsupportedCause(type) ==
  IF type.base = "struct" THEN "unsupported struct type" ELSE "unsupported field type"

\* a struct type parameter that construction has accepted over a readable
\* header, whose i-th field is of an unsupported type and follows string
\* fields only
UnsupportedInPlan(i) ==
  /\ Analyzed
  /\ T.ptr = 0
  /\ \A j \in 1..Len(T.fields) : ~Offending(T.fields[j])
  /\ Unsupported(T.fields[i])
  /\ InPlan(T.fields[i])
  /\ \A j \in 1..(i - 1) : T.fields[j].type = StringT

\* what Next returned for a row, given the unsupported i-th field f
UnsupportedRowResult(f, i) ==
  IF CellPresent(f) /\ (CellOf(f) # <<>> \/ TagRequired(f))
  THEN /\ Val(ret) = <<>>
       /\ ret.err = Err("failed to parse field", f.name, TagColumn(f),
                        UnsupportedCause(f.type))
  ELSE IF ~CellPresent(f) /\ TagRequired(f)
  THEN /\ Val(ret) = <<>>
       /\ ret.err = Err("missing required column in row", "", TagColumn(f), "")
  ELSE /\ ret.err = nil
       /\ Val(ret) # <<>>
       /\ Val(ret)[1][i] = ZeroValue(f.type)

\* C11 as stated: a type parameter with an annotated field of an
\* unsupported type is rejected by construction, which returns no
\* iterator, and no Next call returns an unsupported-type error.
C11_UnsupportedTypeFailsConstruction ==
  (Analyzed /\ \E i \in 1..Len(T.fields) : Unsupported(T.fields[i])) =>
    /\ it = <<>>
    /\ ret.op = "Next" =>
         ret.err.cause \notin {"unsupported struct type", "unsupported field type"}

\* C11 (amended): construction does not look at field types: a struct type
\* with an annotated field of an unsupported type is accepted, and the
\* unsupported-type error comes from the Next call that has to coerce a
\* cell for that field, which is every row with a non-empty cell, and
\* every row with a cell when the field is required; a row whose cell is
\* empty or missing for a non-required such field yields a record.
C11_UnsupportedTypeFailsInNext ==
  \A i \in 1..Len(T.fields) :
    UnsupportedInPlan(i) =>
      /\ it # <<>>
      /\ ret.op = "New" => ret.err = nil
      /\ RowRead => UnsupportedRowResult(T.fields[i], i)

\* Next has returned the unsupported-type error for a nested struct field
\* of an iterator that construction returned
C11_Witness ==
  /\ UnsupportedInPlan(2)
  /\ it # <<>>
  /\ RowRead
  /\ T.fields[2].type = Ty(0, "struct")
  /\ ~TagRequired(T.fields[2])
  /\ Val(ret) = <<>>
  /\ ret.err.kind = "failed to parse field"
  /\ ret.err.cause = "unsupported struct type"

---------------------------------------------------------------------------
(* C12 *)

\* the permutations of 1..n
ColumnOrders(n) ==
  {p \in [1..n -> 1..n] : \A i, j \in 1..n : p[i] = p[j] => i = j}

\* the cells in the order given by the permutation p
Permute(cells, p) == [i \in 1..Len(cells) |-> cells[p[i]]]

\* the iterator constructed over the header whose columns are permuted by p
PermutedIterator(p) ==
  newIterator(T, <<Row(Permute(file[1].cells, p))>>, "EOF", FALSE).it

\* what Next on that iterator returns for the row that Next has read, its
\* cells permuted by p
PermutedNext(p) ==
  Given(IteratorNext(T, PermutedIterator(p)[1],
                     <<Row(Permute(mark[1].cells, p))>>, "EOF"))

\* Next has read a row that has as many cells as the header has columns
FullRowRead == RowRead /\ HeaderRead /\ Len(mark[1].cells) = Len(file[1].cells)

\* no two columns of the header have the same name after trimming
DistinctHeaders == Cardinality(HeaderNames) = Len(file[1].cells)

\* C12 as stated: for every permutation of the columns, applied to the
\* header and to the row alike, construction succeeds and Next returns
\* what it returned for the unpermuted input.
C12_PermutationInvariant ==
  FullRowRead =>
    \A p \in ColumnOrders(Len(file[1].cells)) :
      /\ PermutedIterator(p) # <<>>
      /\ PermutedNext(p) = Given([item |-> Val(ret), err |-> ret.err])

\* C12 (amended): when the column names of the header are distinct after
\* trimming, then for every permutation of the columns, applied to the
\* header and to the row alike, construction succeeds and Next returns
\* what it returned for the unpermuted input, whatever the declaration
\* order of the fields.
C12_PermutationInvariantDistinctNames ==
  (FullRowRead /\ DistinctHeaders) =>
    \A p \in ColumnOrders(Len(file[1].cells)) :
      /\ PermutedIterator(p) # <<>>
      /\ PermutedNext(p) = Given([item |-> Val(ret), err |-> ret.err])

\* Next has returned a record for a row of three distinct columns whose
\* order is not the declaration order of the fields, and the cells of the
\* two bound columns differ
C12_Witness ==
  /\ FullRowRead
  /\ DistinctHeaders
  /\ Len(file[1].cells) = 3
  /\ T.fields[1].name = "A"
  /\ file[1].cells[3] = <<"a">>
  /\ mark[1].cells[2] = CellSeven
  /\ mark[1].cells[3] = CellWord
  /\ ret.err = nil
  /\ Val(ret) = <<<<CellWord, 7>>>>

---------------------------------------------------------------------------
(* C13 *)

\* Next has read a row that has fewer cells than the header has columns
ShortRowRead == RowRead /\ HeaderRead /\ Len(mark[1].cells) < Len(file[1].cells)

\* the cells followed by as many empty cells as are missing to make n
Padded(cells, n) == [i \in 1..n |-> IF i <= Len(cells) THEN cells[i] ELSE <<>>]

\* what Next returns for the row read, padded to the length of the header
PaddedNext ==
  Given(IteratorNext(T, it[1], <<Row(Padded(mark[1].cells, Len(file[1].cells)))>>, tail))

\* a field of the plan whose cell the row read does not have
CellMissing(f) == InPlan(f) /\ ~CellPresent(f)

\* C13: a Next call that reads a row shorter than the header returns an
\* error and no record if the cell of a required field of the plan is
\* missing, and otherwise a record in which the non-required fields with
\* missing cells have their defaults; and it returns what it would return
\* for the same row with empty cells added up to the header's length.
C13_ShortRowLikePaddedRow ==
  ShortRowRead =>
    /\ (\E i \in 1..Len(T.fields) :
          CellMissing(T.fields[i]) /\ TagRequired(T.fields[i]))
         => (Val(ret) = <<>> /\ ret.err \notin {nil, EOF})
    /\ Val(ret) # <<>> =>
         \A i \in 1..Len(T.fields) :
           CellMissing(T.fields[i]) => Val(ret)[1][i] = ZeroValue(T.fields[i].type)
    /\ Given([item |-> Val(ret), err |-> ret.err]) = PaddedNext

---------------------------------------------------------------------------
(* C14 *)

\* the first element since mark, or the end of the stream, for which Next
\* returns an error or end-of-data
FirstStop ==
  CHOOSE j \in 1..(Len(mark) + 1) :
    /\ NextAt(j).err # nil
    /\ \A m \in 1..(j - 1) : NextAt(m).err = nil

\* C14: ToSlice stops at the first element for which Next returns an error
\* or end-of-data; on an error other than end-of-data it returns that
\* error and no records, whatever it had collected, and leaves the
\* elements after the failing one unread; on end-of-data it returns the
\* records of all elements.
C14_ToSliceErrorDiscardsRecords ==
  (ret.op = "ToSlice" /\ ~ret.panic) =>
    IF NextAt(FirstStop).err = EOF
    THEN /\ ret.err = nil
         /\ Len(Val(ret)) = FirstStop - 1
    ELSE /\ ret.err = NextAt(FirstStop).err
         /\ Val(ret) = <<>>
         /\ stream = SubSeq(mark, FirstStop + 1, Len(mark))

\* ToSlice has returned the error of the second row and no records, the
\* first row having given a record
C14_Witness ==
  /\ ret.op = "ToSlice"
  /\ ~ret.panic
  /\ FirstStop = 2
  /\ NextAt(1).item # <<>>
  /\ ret.err.kind = "failed to parse field"
  /\ Val(ret) = <<>>
  /\ stream = <<>>

---------------------------------------------------------------------------
(* C15 *)

\* the plan entry e is bound to a position of the header row, which holds
\* its column's name
ValidEntry(e) ==
  /\ e.csvColumn \in DOMAIN it[1].fieldMap
  /\ it[1].fieldMap[e.csvColumn] >= 0
  /\ it[1].fieldMap[e.csvColumn] < Len(it[1].headers)
  /\ TrimSpace(it[1].headers[it[1].fieldMap[e.csvColumn] + 1]) = e.csvColumn

\* the iterator holds the header row as it was read, Headers returns it,
\* and every plan entry is bound to a position within it
HeadersAsRead ==
  it # <<>> =>
    /\ it[1].headers = file[1].cells
    /\ ret.op = "Headers" => Val(ret) = file[1].cells
    /\ \A k \in 1..Len(it[1].fieldInfo) : ValidEntry(it[1].fieldInfo[k])

\* C15: from construction on, no Next, ForEach, ToSlice, Headers or Close
\* call changes the header list, the header index or the field plan of the
\* iterator; the header list is the header row as read, Headers returns
\* it, and every plan entry's column index is a position of the header.
C15_HeadersAndPlanFixed ==
  /\ []HeadersAsRead
  /\ [][it # <<>> => it' = it]_vars

\* Headers has returned the header row after a Next call has read a row,
\* on an iterator with a plan of two entries
C15_Witness ==
  /\ it # <<>>
  /\ ret.op = "Headers"
  /\ Val(ret) = file[1].cells
  /\ Len(stream) < Len(file) - 1
  /\ Len(it[1].fieldInfo) = 2

---------------------------------------------------------------------------
(* C16 *)

\* C16: once Close has been called on an iterator whose underlying reader
\* is an io.Closer (a file, a response body, or such a reader given to
\* NewFromReader), that reader has been closed.
C16_CloseClosesClosableReader ==
  (/\ it # <<>>
   /\ source \in {"file", "url", "readcloser"}
   /\ closeCalls >= 1) => closed >= 1

---------------------------------------------------------------------------
(* C17 *)

\* the spellings of true and of false that the package documents
TrueSpellings ==
  {<<"true">>, <<"TRUE">>, <<"True">>, <<"1">>, <<"yes">>, <<"YES">>, <<"Yes">>,
   <<"on">>, <<"ON">>, <<"On">>}

FalseSpellings ==
  {<<"false">>, <<"FALSE">>, <<"False">>, <<"0">>, <<"no">>, <<"NO">>, <<"No">>,
   <<"off">>, <<"OFF">>, <<"Off">>}

\* the i-th field is a field of the plan of the given type, the row read
\* has a cell for it, and the fields before it cannot fail: they are
\* string fields whose cells the row has
TypedCellRead(i, type) ==
  /\ RowRead
  /\ InPlan(T.fields[i])
  /\ T.fields[i].type = type
  /\ \A j \in 1..(i - 1) :
       /\ T.fields[j].type = StringT
       /\ InPlan(T.fields[j]) => CellPresent(T.fields[j])
  /\ CellPresent(T.fields[i])

\* C17: a Next call that reads, for a bool field, a cell holding one of the
\* documented spellings of true or false returns a record with that
\* boolean in the field and no error.
C17_BoolSpellingsAccepted ==
  \A i \in 1..Len(T.fields) :
    (/\ TypedCellRead(i, Ty(0, "bool"))
     /\ CellOf(T.fields[i]) \in TrueSpellings \cup FalseSpellings) =>
      /\ ret.err = nil
      /\ Val(ret) # <<>>
      /\ Val(ret)[1][i] = (CellOf(T.fields[i]) \in TrueSpellings)

---------------------------------------------------------------------------
(* C18 *)

\* the text is a decimal integer, with or without sign
IsNumber(text) ==
  /\ text # <<>>
  /\ IF Head(text) \in {"+", "-"} THEN AllDigits(Tail(text)) ELSE AllDigits(text)

\* the number a decimal integer text writes
NumberOf(text) ==
  IF Head(text) = "-" THEN 0 - DecimalVal(Tail(text))
  ELSE IF Head(text) = "+" THEN DecimalVal(Tail(text))
  ELSE DecimalVal(text)

\* whether the number n is a value of the integer kind
InRange(base, n) ==
  CASE base = "int8"   -> n >= -128 /\ n <= 127
    [] base = "uint8"  -> n >= 0 /\ n <= 255
    [] base = "int16"  -> n >= -32768 /\ n <= 32767
    [] base = "uint16" -> n >= 0 /\ n <= 65535
    [] base \in UintKinds -> n >= 0
    [] OTHER -> TRUE

\* C18: a Next call that reads, for an integer field, a cell that writes a
\* decimal integer returns a record in which the field equals that number
\* when the number is in the range of the field's kind, and an error and
\* no record when it is not.
C18_IntegerWidthRespected ==
  \A i \in 1..Len(T.fields) :
    (/\ RowRead
     /\ T.fields[i].type.ptr = 0
     /\ T.fields[i].type.base \in IntKinds \cup UintKinds
     /\ TypedCellRead(i, T.fields[i].type)
     /\ IsNumber(CellOf(T.fields[i]))) =>
      IF InRange(T.fields[i].type.base, NumberOf(CellOf(T.fields[i])))
      THEN /\ ret.err = nil
           /\ Val(ret) # <<>>
           /\ Val(ret)[1][i] = NumberOf(CellOf(T.fields[i]))
      ELSE /\ Val(ret) = <<>>
           /\ ret.err \notin {nil, EOF}

---------------------------------------------------------------------------
(* C19 *)

\* C19: every ForEach call returns: whenever the loop of ForEach is
\* running it eventually has ended, whatever the callback answers and
\* whatever the reader returns.
C19_ForEachTerminates == (pc = "foreach") ~> (pc # "foreach")

---------------------------------------------------------------------------
(* C20 *)

\* C20: a Next call on an iterator whose type parameter is a pointer to an
\* annotated struct does not panic: for a row it returns a record or an
\* error.
C20_PointerTypeNeverPanics ==
  (T.ptr = 1 /\ T.base = "struct" /\ it # <<>> /\ ret.op = "Next") =>
    /\ ~ret.panic
    /\ (mark # <<>> /\ mark[1].k = "row") => (Val(ret) # <<>> \/ ret.err # nil)

====
